---- MODULE Spec2Model ----
(***************************************************************************)
(* Verification model of src/calculations.py: the time-lag analysis        *)
(* (time_lag_analysis) and the method-of-lines diffusion solver            *)
(* (solve_constant_diffusivity_model and its helpers).                     *)
(*                                                                         *)
(* Numbers.  Python floats are modelled by exact rationals [n, d] in       *)
(* lowest terms, extended with the IEEE specials the code can produce:     *)
(* d = 0 with n = 1 / -1 / 0 stands for +inf / -inf / nan.  Rounding error *)
(* of the floating-point operations themselves is not modelled; rounding   *)
(* that the code asks for (round(), the ".3g" format) is.                  *)
(***************************************************************************)
EXTENDS Integers, Sequences, FiniteSets, TLC

VARIABLES
    \* ---- time_lag_analysis: arguments, position, locals, outcome
    df,                     \* [columns: set of column names, rows: sequence of samples]
    stabilisation_time_s,
    thickness,
    tl_pc,                  \* "start" | "checked" | "fitted" | "done" | "raised"
    tl_raised,              \* "" | "ValueError:flux" | "ValueError:t" | "TypeError" | "KeyError:P_cell"
    df_ss,                  \* indices of the rows of df kept in the steady-state subset
    tl_steps,               \* history: the computations the call has started so far
    slope, intercept, time_lag, diffusion_coefficient,
    pressure, permeability, solubility, solubility_coefficient,
    tl_return,              \* the returned tuple, <<>> while nothing is returned
    \* ---- solve_constant_diffusivity_model: arguments, position, locals, outcome
    args,                   \* [diffusion_coeff, C_eq, L, T, dt, dx]
    sim_pc,                 \* "start" | "integrating" | "solved" | "done" | "raised"
    sim_raised,             \* "" | "ZeroDivisionError" | "AttributeError"
    grid,                   \* [Nx, Nt, x_grid, t_grid, dx]: _solve_diffusion_pde's locals
    initial_condition,
    sol,                    \* solve_ivp's result: [t, y, status], status 1 while it runs
    sim_return              \* [C_surface, flux_values, df_C_surface, df_flux_values]

tl_vars == <<df, stabilisation_time_s, thickness, tl_pc, tl_raised, df_ss, tl_steps,
             slope, intercept, time_lag, diffusion_coefficient,
             pressure, permeability, solubility, solubility_coefficient, tl_return>>

sim_vars == <<args, sim_pc, sim_raised, grid, initial_condition, sol, sim_return>>

vars == <<tl_vars, sim_vars>>

\* -------------------------------------------------------------------------
\* Bounds of the model
\* -------------------------------------------------------------------------
MaxRows == 3             \* rows of a measurement table
ResidualDen == 1000      \* an integration residual is 1/ResidualDen

\* -------------------------------------------------------------------------
\* Rational arithmetic with IEEE specials
\* -------------------------------------------------------------------------
Abs(i) == IF i < 0 THEN -i ELSE i

Sign(i) == IF i < 0 THEN -1 ELSE IF i > 0 THEN 1 ELSE 0

RECURSIVE Gcd(_, _)
Gcd(a, b) == IF b = 0 THEN a ELSE Gcd(b, a % b)

\* the float value n/d (d = 0: an infinity of the sign of n, or nan)
Rat(n, d) ==
    IF d = 0 THEN [n |-> Sign(n), d |-> 0]
    ELSE LET g == Gcd(Abs(n), Abs(d))
             s == Sign(d)
         IN  [n |-> s * (n \div g), d |-> s * (d \div g)]

FromInt(i) == [n |-> i, d |-> 1]

NaN == [n |-> 0, d |-> 0]

IsFinite(a) == a.d # 0

IsZero(a) == a.d # 0 /\ a.n = 0

RNeg(a) == [n |-> -a.n, d |-> a.d]

RMul(a, b) ==
    LET g1 == Gcd(Abs(a.n), b.d)
        g2 == Gcd(Abs(b.n), a.d)
    IN  IF a.d = 0 \/ b.d = 0 THEN Rat(a.n * b.n, 0)
        ELSE Rat((a.n \div g1) * (b.n \div g2), (a.d \div g2) * (b.d \div g1))

\* 1/a: 1/0 is +inf, 1/inf is 0, 1/nan is nan
RInv(a) == IF a.d = 0 THEN (IF a.n = 0 THEN NaN ELSE FromInt(0))
           ELSE Rat(Sign(a.n) * a.d, Abs(a.n))

RDiv(a, b) == IF b.d = 0 /\ b.n # 0 /\ a.d = 0 THEN NaN ELSE RMul(a, RInv(b))

RAdd(a, b) ==
    IF a.d = 0 \/ b.d = 0
    THEN (IF a.d = 0 /\ b.d = 0 THEN (IF a.n = b.n THEN a ELSE NaN)
          ELSE IF a.d = 0 THEN a ELSE b)
    ELSE LET g == Gcd(a.d, b.d)
         IN  Rat(a.n * (b.d \div g) + b.n * (a.d \div g), (a.d \div g) * b.d)

RSub(a, b) == RAdd(a, RNeg(b))

\* a <= b on finite values
RLeq(a, b) == a.n * b.d <= b.n * a.d

RAbs(a) == [n |-> Abs(a.n), d |-> a.d]

RECURSIVE SumUpTo(_, _, _)
\* the sum of f[i] over the i in S with i <= k
SumUpTo(f, S, k) ==
    IF k = 0 THEN 0
    ELSE (IF k \in S THEN f[k] ELSE 0) + SumUpTo(f, S, k - 1)

\* -------------------------------------------------------------------------
\* TIME LAG ANALYSIS
\* -------------------------------------------------------------------------
ColT == "t / s"

ColFlux == "cumulative flux / cm^3(STP) cm^-2"

ColP == "P_cell / bar"

None == [n |-> 0, d |-> -1]     \* a local that has not been assigned yet

\* a faulty selection, for comparison: the row at the stabilisation time is
\* kept (>= for >)
SteadyStateRowsInclusive(rows, stab) == {i \in 1..Len(rows) : rows[i].t >= stab}

\* df[df['t / s'] > stabilisation_time_s]: the rows, wherever they stand in
\* the table, whose time is strictly greater than the stabilisation time
SteadyStateRows(rows, stab) == {i \in 1..Len(rows) : rows[i].t > stab}

\* np.polyfit(x, y, 1) over the rows S: least squares of degree 1.
\*   no row:                 TypeError("expected non-empty vector for x")
\*   all x equal (rank 1):   the minimum-norm solution of the column-scaled
\*                           system, slope = mean(y)/(2 x0), intercept = mean(y)/2
\*   otherwise:              the solution of the normal equations
Polyfit(rows, S) ==
    LET n   == Cardinality(S)
        len == Len(rows)
        sx  == SumUpTo([i \in 1..len |-> rows[i].t], S, len)
        sy  == SumUpTo([i \in 1..len |-> rows[i].flux], S, len)
        sxx == SumUpTo([i \in 1..len |-> rows[i].t * rows[i].t], S, len)
        sxy == SumUpTo([i \in 1..len |-> rows[i].t * rows[i].flux], S, len)
        den == n * sxx - sx * sx
        m   == Rat(n * sxy - sx * sy, den)
    IN  IF n = 0 THEN [err |-> "TypeError", slope |-> None, intercept |-> None]
        ELSE IF den = 0
        THEN [err |-> "", slope |-> RDiv(Rat(sy, n), RMul(FromInt(2), Rat(sx, n))),
              intercept |-> RDiv(Rat(sy, n), FromInt(2))]
        ELSE [err |-> "", slope |-> m,
              intercept |-> RDiv(RSub(FromInt(sy), RMul(m, FromInt(sx))), FromInt(n))]

\* df_ss['P_cell / bar'].mean()
MeanPressure(rows, S) ==
    Rat(SumUpTo([i \in 1..Len(rows) |-> rows[i].P], S, Len(rows)), Cardinality(S))

\* lines 43-61, the derived coefficients
TimeLagOf(b, m) == RDiv(RNeg(b), m)

DiffusionCoefficientOf(h, tl) == RDiv(FromInt(h * h), RMul(FromInt(6), tl))

PermeabilityOf(h, m, p) == RDiv(RMul(FromInt(h), m), p)

SolubilityOf(h, m, dc) == RDiv(RMul(m, FromInt(h)), dc)

SolubilityCoefficientOf(perm, dc) == RDiv(perm, dc)

\* a faulty return, for comparison: solubility and solubility_coefficient
\* change places
ReturnTupleSwapped(tl, dc, perm, sc, p, s, m, b) == <<tl, dc, perm, s, p, sc, m, b>>

\* the order of the returned tuple, line 63
ReturnTuple(tl, dc, perm, sc, p, s, m, b) == <<tl, dc, perm, sc, p, s, m, b>>

\* the inputs the analysis is called with
SampleFluxes == {0, 1}

PressureValues == {0, 1}

Thicknesses == {1, 2}

SampleTimes == {1, 2, 3}

StabilisationTimes == {1, 2}

\* the measurement tables: a column that is absent carries no data (0 in
\* every row)
Samples(cols) ==
    [t    : IF ColT \in cols THEN SampleTimes ELSE {0},
     flux : IF ColFlux \in cols THEN SampleFluxes ELSE {0},
     P    : IF ColP \in cols THEN PressureValues ELSE {0}]

Tables(cols) == UNION {[1..k -> Samples(cols)] : k \in 0..MaxRows}

\* the state of a component no call of which is in progress
TimeLagIdle ==
    /\ df = [columns |-> {}, rows |-> <<>>]
    /\ stabilisation_time_s = 0 /\ thickness = 0
    /\ tl_pc = "idle" /\ tl_raised = "" /\ df_ss = {} /\ tl_steps = {}
    /\ slope = None /\ intercept = None /\ time_lag = None
    /\ diffusion_coefficient = None /\ pressure = None /\ permeability = None
    /\ solubility = None /\ solubility_coefficient = None
    /\ tl_return = <<>>

SimulatorIdle ==
    /\ args = [diffusion_coeff |-> 0, C_eq |-> 0, L |-> 0, T |-> 0, dt |-> 0, dx |-> 0]
    /\ sim_pc = "idle" /\ sim_raised = ""
    /\ grid = <<>> /\ initial_condition = <<>> /\ sim_return = <<>>
    /\ sol = [t |-> <<>>, y |-> <<>>, status |-> 1]

InitTimeLag ==
    /\ SimulatorIdle
    /\ \E cols \in SUBSET {ColT, ColFlux, ColP} :
         \E rows \in Tables(cols) : df = [columns |-> cols, rows |-> rows]
    /\ stabilisation_time_s \in StabilisationTimes
    /\ thickness \in Thicknesses
    /\ tl_pc = "start"
    /\ tl_raised = ""
    /\ df_ss = {}
    /\ tl_steps = {}
    /\ slope = None /\ intercept = None /\ time_lag = None
    /\ diffusion_coefficient = None /\ pressure = None /\ permeability = None
    /\ solubility = None /\ solubility_coefficient = None
    /\ tl_return = <<>>

\* a faulty check, for comparison: the time column is looked for first
MissingColumnTimeFirst(cols) ==
    IF ColT \notin cols THEN "ValueError:t"
    ELSE IF ColFlux \notin cols THEN "ValueError:flux"
    ELSE ""

\* lines 33-36: the two column checks, cumulative flux first
MissingColumn(cols) ==
    IF ColFlux \notin cols THEN "ValueError:flux"
    ELSE IF ColT \notin cols THEN "ValueError:t"
    ELSE ""

CheckColumns ==
    /\ tl_pc = "start"
    /\ tl_raised' = MissingColumn(df.columns)
    /\ tl_pc' = IF MissingColumn(df.columns) # "" THEN "raised" ELSE "checked"
    /\ UNCHANGED <<df, stabilisation_time_s, thickness, df_ss, tl_steps, slope,
                   intercept, time_lag, diffusion_coefficient, pressure,
                   permeability, solubility, solubility_coefficient, tl_return>>
    /\ UNCHANGED sim_vars

\* lines 39-49: the steady-state subset, the fit, time_lag and the diffusion
\* coefficient
FitSteadyState ==
    /\ tl_pc = "checked"
    /\ LET S   == SteadyStateRows(df.rows, stabilisation_time_s)
           fit == Polyfit(df.rows, S)
           tl  == TimeLagOf(fit.intercept, fit.slope)
       IN  /\ df_ss' = S
           /\ IF fit.err # ""
              THEN /\ tl_pc' = "raised" /\ tl_raised' = fit.err
                   /\ tl_steps' = tl_steps \cup {"select", "polyfit"}
                   /\ UNCHANGED <<slope, intercept, time_lag, diffusion_coefficient>>
              ELSE /\ tl_pc' = "fitted" /\ tl_raised' = ""
                   /\ tl_steps' = tl_steps \cup {"select", "polyfit", "time_lag",
                                                 "diffusion_coefficient"}
                   /\ slope' = fit.slope /\ intercept' = fit.intercept
                   /\ time_lag' = tl
                   /\ diffusion_coefficient' = DiffusionCoefficientOf(thickness, tl)
    /\ UNCHANGED <<df, stabilisation_time_s, thickness, pressure, permeability,
                   solubility, solubility_coefficient, tl_return>>
    /\ UNCHANGED sim_vars

\* lines 52-63: the mean pressure (KeyError when the column is absent), the
\* remaining coefficients and the returned tuple
DeriveCoefficients ==
    /\ tl_pc = "fitted"
    /\ IF ColP \notin df.columns
       THEN /\ tl_pc' = "raised" /\ tl_raised' = "KeyError:P_cell"
            /\ tl_steps' = tl_steps \cup {"pressure"}
            /\ UNCHANGED <<pressure, permeability, solubility,
                           solubility_coefficient, tl_return>>
       ELSE LET p    == MeanPressure(df.rows, df_ss)
                perm == PermeabilityOf(thickness, slope, p)
                s    == SolubilityOf(thickness, slope, diffusion_coefficient)
                sc   == SolubilityCoefficientOf(perm, diffusion_coefficient)
            IN  /\ tl_pc' = "done" /\ tl_raised' = ""
                /\ tl_steps' = tl_steps \cup {"pressure", "permeability", "solubility",
                                              "solubility_coefficient", "return"}
                /\ pressure' = p /\ permeability' = perm
                /\ solubility' = s /\ solubility_coefficient' = sc
                /\ tl_return' = ReturnTuple(time_lag, diffusion_coefficient, perm,
                                            sc, p, s, slope, intercept)
    /\ UNCHANGED <<df, stabilisation_time_s, thickness, df_ss, slope, intercept,
                   time_lag, diffusion_coefficient>>
    /\ UNCHANGED sim_vars

NextTimeLag == CheckColumns \/ FitSteadyState \/ DeriveCoefficients

SpecTimeLag == InitTimeLag /\ [][NextTimeLag]_vars


\* -------------------------------------------------------------------------
\* DIFFUSION EQUATION SOLVER
\* -------------------------------------------------------------------------
\* Python's round() of the float n/d (n >= 0, d > 0): to the nearest integer,
\* a tie to the even one
Round(n, d) ==
    LET q == n \div d
        r == n % d
    IN  IF 2 * r < d THEN q
        ELSE IF 2 * r > d THEN q + 1
        ELSE IF q % 2 = 0 THEN q ELSE q + 1

\* np.linspace(0, stop, num): num points, i * stop/(num - 1), indexed from 0
Linspace(stop, num) ==
    [i \in 0..(num - 1) |-> IF num = 1 THEN FromInt(0) ELSE Rat(i * stop, num - 1)]

\* _setup_grid, lines 183-190
SetupGrid(L, T, dx, dt) ==
    LET nx == Round(L, dx) + 1
        nt == Round(T, dt) + 1
    IN  [Nx |-> nx, Nt |-> nt, x_grid |-> Linspace(L, nx), t_grid |-> Linspace(T, nt)]

\* _create_initial_condition, lines 202-204
CreateInitialCondition(Nx, C_eq) ==
    [i \in 0..(Nx - 1) |-> IF i = 0 THEN FromInt(C_eq) ELSE FromInt(0)]

\* _diffusion_ode, lines 221-227: component i of the right-hand side; zero at
\* both ends, the central difference at the interior points 1..Nx-2
DiffusionOdeAt(C, i, Nx, diffusion_coeff, dx) ==
    IF i >= 1 /\ i <= Nx - 2
    THEN RDiv(RMul(FromInt(diffusion_coeff),
                   RAdd(RSub(C[i + 1], RMul(FromInt(2), C[i])), C[i - 1])),
              RMul(dx, dx))
    ELSE FromInt(0)

DiffusionOde(C, Nx, diffusion_coeff, dx) ==
    [i \in 0..(Nx - 1) |-> DiffusionOdeAt(C, i, Nx, diffusion_coeff, dx)]

\* ---- solve_ivp(method='BDF'), lines 151-160 ------------------------------
\* The stiff integrator is a library.  It is modelled by the first-order BDF
\* formula (backward Euler), one step per output interval: the next output
\* y' solves  y' - h f(y') = y  for the right-hand side f above.  f is
\* linear with a three-point stencil, so the step is a tridiagonal solve
\* whose coefficients are read off f at unit vectors (as the integrator's
\* finite-difference Jacobian does).
UnitAt(j, k) == IF k = j THEN FromInt(1) ELSE FromInt(0)

\* entry (i, j) of the Jacobian of the right-hand side, |i - j| <= 1
Jacobian(i, j, Nx, diffusion_coeff, dx) ==
    DiffusionOdeAt([k \in (i - 1)..(i + 1) |-> UnitAt(j, k)], i, Nx, diffusion_coeff, dx)

\* entry (i, j) of I - h J
StepMatrix(i, j, h, Nx, diffusion_coeff, dx) ==
    RSub(UnitAt(j, i), RMul(h, Jacobian(i, j, Nx, diffusion_coeff, dx)))

\* row i of the elimination pass of the tridiagonal solve: [cp, dp], from
\* the row before it
SweepRow(i, prev, y, h, Nx, diffusion_coeff, dx) ==
    LET a   == IF i = 0 THEN FromInt(0)
               ELSE StepMatrix(i, i - 1, h, Nx, diffusion_coeff, dx)
        b   == StepMatrix(i, i, h, Nx, diffusion_coeff, dx)
        c   == IF i = Nx - 1 THEN FromInt(0)
               ELSE StepMatrix(i, i + 1, h, Nx, diffusion_coeff, dx)
        den == RSub(b, RMul(a, prev.cp))
    IN  [cp |-> RDiv(c, den), dp |-> RDiv(RSub(y[i], RMul(a, prev.dp)), den)]

RECURSIVE ForwardSweep(_, _, _, _, _, _, _, _)
\* the elimination pass over rows lo..hi, in this order; acc is the
\* sequence of the rows 0..lo-1.  (The range is halved rather than walked,
\* and the first half is completed before the second is entered, so that
\* the depth of the evaluation stays logarithmic in the grid size.)
ForwardSweep(lo, hi, acc, y, h, Nx, diffusion_coeff, dx) ==
    IF lo = hi
    THEN LET prev == IF lo = 0 THEN [cp |-> FromInt(0), dp |-> FromInt(0)]
                     ELSE acc[lo]
         IN  Append(acc, SweepRow(lo, prev, y, h, Nx, diffusion_coeff, dx))
    ELSE LET mid  == (lo + hi) \div 2
             left == ForwardSweep(lo, mid, acc, y, h, Nx, diffusion_coeff, dx)
         IN  IF Len(left) = mid + 1
             THEN ForwardSweep(mid + 1, hi, left, y, h, Nx, diffusion_coeff, dx)
             ELSE left

RECURSIVE BackSubstitute(_, _, _, _)
\* the back substitution over rows hi..lo, in this order; acc is the
\* sequence of the rows hi+1..Nx-1
BackSubstitute(lo, hi, sweep, acc) ==
    IF lo = hi
    THEN LET next == IF acc = <<>> THEN FromInt(0) ELSE acc[1]
         IN  <<RSub(sweep[lo + 1].dp, RMul(sweep[lo + 1].cp, next))>> \o acc
    ELSE LET mid   == (lo + hi) \div 2
             right == BackSubstitute(mid + 1, hi, sweep, acc)
         IN  IF Len(right) = Len(acc) + (hi - mid)
             THEN BackSubstitute(lo, mid, sweep, right)
             ELSE right

\* one backward-Euler step of size h from y
ImplicitStep(y, h, Nx, diffusion_coeff, dx) ==
    LET sweep == ForwardSweep(0, Nx - 1, <<>>, y, h, Nx, diffusion_coeff, dx)
        next  == BackSubstitute(0, Nx - 1, sweep, <<>>)
    IN  [i \in 0..(Nx - 1) |-> next[i + 1]]

\* What solve_ivp promises of an output value is rtol = 1e-4, atol = 1e-6
\* (lines 158-159), not exactness: an output row is the step's value up to a
\* residual.  The model lets a row carry no residual, or one of either sign
\* at one of the places the result is read from: the two boundary columns
\* and the column next to the downstream boundary.
ResidualSites(Nx) == {0, Nx - 2, Nx - 1} \cap 0..(Nx - 1)

Residuals(Nx) ==
    {[i \in 0..(Nx - 1) |-> FromInt(0)]} \cup
    {[i \in 0..(Nx - 1) |-> IF i = site THEN Rat(sgn, ResidualDen) ELSE FromInt(0)] :
        site \in ResidualSites(Nx), sgn \in {-1, 1}}

\* the vector sum
VecAdd(u, v) == [i \in DOMAIN u |-> RAdd(u[i], v[i])]

\* the last row solve_ivp has put out, or the initial condition
LastOutput(y, y0) == IF y = <<>> THEN y0 ELSE [i \in DOMAIN y |-> y[i][Len(y[i])]]

\* sol.y with one more output row: sol.y is indexed (position, time)
AppendOutput(y, rows, Nx) ==
    [i \in 0..(Nx - 1) |->
        (IF y = <<>> THEN <<>> ELSE y[i]) \o [k \in 1..Len(rows) |-> rows[k][i]]]

\* _prepare_concentration_profile, line 239: sol.y.T, indexed (time, position)
PrepareConcentrationProfile(y, nt) ==
    [k \in 1..nt |-> [i \in DOMAIN y |-> y[i][k]]]

\* _calculate_flux, line 255: the backward difference of the last two columns
\* over the dx it is given
CalculateFlux(diffusion_coeff, C_surface, dx, Nx) ==
    [k \in 1..Len(C_surface) |->
        RDiv(RMul(FromInt(-diffusion_coeff),
                  RSub(C_surface[k][Nx - 1], C_surface[k][Nx - 2])),
             dx)]

RECURSIVE Normalise(_, _, _)
\* p/q * 10^e with 100 <= p/q < 1000, then rounded to a three-digit mantissa
Normalise(p, q, e) ==
    IF p < 100 * q THEN Normalise(10 * p, q, e - 1)
    ELSE IF p >= 1000 * q THEN Normalise(p, 10 * q, e + 1)
    ELSE LET m == Round(p, q)
         IN  IF m = 1000 THEN [m |-> 100, e |-> e + 3] ELSE [m |-> m, e |-> e + 2]

\* f"x = {x:.3g}", line 274: the label is x rounded to three significant
\* digits; the text printed is fixed by the mantissa m (100..999, or 0 for
\* x = 0) and the decimal exponent e of its first digit
FormatLabel(x) ==
    IF x.n = 0 THEN [name |-> "x", m |-> 0, e |-> 0]
    ELSE LET r == Normalise(x.n, x.d, 0)
         IN  [name |-> "x", m |-> r.m, e |-> r.e]

TimeLabel == [name |-> "Time", m |-> 0, e |-> 0]

\* pandas' lookup of one label in a column index: every position that
\* carries the label, in ascending order (one position when the labels are
\* unique)
Positions(columns, label) ==
    LET P == {j \in 1..Len(columns) : columns[j] = label}
    IN  [k \in 1..Cardinality(P) |->
            CHOOSE j \in P : Cardinality({i \in P : i < j}) = k - 1]

RECURSIVE SelectColumns(_, _, _, _)
\* df[keys], line 276: the positions selected for the keys lo..hi in turn
SelectColumns(columns, keys, lo, hi) ==
    IF lo > hi THEN <<>>
    ELSE IF lo = hi THEN Positions(columns, keys[lo])
    ELSE LET mid == (lo + hi) \div 2
         IN  SelectColumns(columns, keys, lo, mid)
             \o SelectColumns(columns, keys, mid + 1, hi)

IsNotTime(label) == label # TimeLabel

\* [col for col in df.columns if col != 'Time'], line 276
WithoutTime(columns) == SelectSeq(columns, IsNotTime)

\* _create_dataframes, lines 274-284; a table is [columns, data], data[j]
\* the values of column j over the output times
CreateDataframes(C_surface, flux_values, t, x_grid, Nx) ==
    LET nt   == Len(C_surface)
        cols == [j \in 1..Nx |-> FormatLabel(x_grid[j - 1])] \o <<TimeLabel>>
        data == [j \in 1..Nx |-> [k \in 1..nt |-> C_surface[k][j - 1]]] \o <<t>>
        keys == <<TimeLabel>> \o WithoutTime(cols)
        pos  == SelectColumns(cols, keys, 1, Len(keys))
    IN  [df_C_surface |-> [columns |-> [j \in 1..Len(pos) |-> cols[pos[j]]],
                           data    |-> [j \in 1..Len(pos) |-> data[pos[j]]]],
         df_flux_values |-> [columns |-> <<"Time", "Flux">>,
                             data    |-> <<t, flux_values>>]]

\* the arguments the simulation is called with
Diffusivities == {1, 2}

Concentrations == {1, 2}

Geometries == [L : {2, 3}, dx : {1, 2, 5}]

Horizons == {[T |-> 2, dt |-> 1], [T |-> 50, dt |-> 40], [T |-> 2, dt |-> 5]}

InitArgs(Ds, Cs, Gs, Hs) ==
    /\ TimeLagIdle
    /\ \E D \in Ds, C \in Cs, g \in Gs, h \in Hs :
         args = [diffusion_coeff |-> D, C_eq |-> C, L |-> g.L, T |-> h.T,
                 dt |-> h.dt, dx |-> g.dx]
    /\ sim_pc = "start" /\ sim_raised = ""
    /\ grid = <<>> /\ initial_condition = <<>> /\ sim_return = <<>>
    /\ sol = [t |-> <<>>, y |-> <<>>, status |-> 1]

InitDiffusion == InitArgs(Diffusivities, Concentrations, Geometries, Horizons)

\* _solve_diffusion_pde up to the call of solve_ivp, lines 140-147: the
\* grids, the reconciled steps (ZeroDivisionError on a grid of one point)
\* and the initial condition
SolveDiffusionPde ==
    /\ sim_pc = "start"
    /\ LET g == SetupGrid(args.L, args.T, args.dx, args.dt)
       IN  IF g.Nx = 1 \/ g.Nt = 1
           THEN /\ sim_pc' = "raised" /\ sim_raised' = "ZeroDivisionError"
                /\ UNCHANGED <<grid, initial_condition, sol>>
           ELSE /\ sim_pc' = "integrating" /\ sim_raised' = ""
                /\ grid' = [Nx |-> g.Nx, Nt |-> g.Nt, x_grid |-> g.x_grid,
                            t_grid |-> g.t_grid,
                            dx |-> Rat(args.L, g.Nx - 1), dt |-> Rat(args.T, g.Nt - 1)]
                /\ initial_condition' = CreateInitialCondition(g.Nx, args.C_eq)
                /\ sol' = [t |-> <<>>, y |-> <<>>, status |-> 1]
    /\ UNCHANGED <<args, sim_return>>
    /\ UNCHANGED tl_vars

\* solve_ivp, one successful step to the next output time: the output rows
\* due are appended (with the first step, the row of t = 0 as well); the last
\* output time ends the integration with status 0
IntegratorStep ==
    /\ sim_pc = "integrating"
    /\ LET k    == IF sol.t = <<>> THEN 1 ELSE Len(sol.t)
           h    == RSub(grid.t_grid[k], grid.t_grid[k - 1])
           step == ImplicitStep(LastOutput(sol.y, initial_condition), h, grid.Nx,
                                args.diffusion_coeff, grid.dx)
       IN  \E res \in Residuals(grid.Nx) :
             LET row  == VecAdd(step, res)
                 rows == IF sol.t = <<>> THEN <<initial_condition, row>> ELSE <<row>>
                 ts   == IF sol.t = <<>> THEN <<grid.t_grid[0], grid.t_grid[1]>>
                         ELSE <<grid.t_grid[k]>>
             IN  /\ sol' = [t |-> sol.t \o ts,
                            y |-> AppendOutput(sol.y, rows, grid.Nx),
                            status |-> IF k + 1 = grid.Nt THEN 0 ELSE 1]
                 /\ sim_pc' = IF k + 1 = grid.Nt THEN "solved" ELSE "integrating"
    /\ UNCHANGED <<args, sim_raised, grid, initial_condition, sim_return>>
    /\ UNCHANGED tl_vars

\* solve_ivp, a step that does not converge: the integration stops with
\* status -1 and the rows put out so far
IntegratorFail ==
    /\ sim_pc = "integrating"
    /\ sol' = [sol EXCEPT !.status = -1]
    /\ sim_pc' = "solved"
    /\ UNCHANGED <<args, sim_raised, grid, initial_condition, sim_return>>
    /\ UNCHANGED tl_vars

\* solve_constant_diffusivity_model after the solve, lines 104-117: the
\* transposed profile (sol.y is an empty list, without .T, when no row was
\* put out), the flux over the requested dx, the two tables, the return
ReturnResult ==
    /\ sim_pc = "solved"
    /\ IF sol.t = <<>>
       THEN /\ sim_pc' = "raised" /\ sim_raised' = "AttributeError"
            /\ UNCHANGED sim_return
       ELSE LET C_surface   == PrepareConcentrationProfile(sol.y, Len(sol.t))
                flux_values == CalculateFlux(args.diffusion_coeff, C_surface,
                                             FromInt(args.dx), grid.Nx)
                dfs         == CreateDataframes(C_surface, flux_values, sol.t,
                                                grid.x_grid, grid.Nx)
            IN  /\ sim_pc' = "done" /\ sim_raised' = ""
                /\ sim_return' = [C_surface |-> C_surface, flux_values |-> flux_values,
                                  df_C_surface |-> dfs.df_C_surface,
                                  df_flux_values |-> dfs.df_flux_values]
    /\ UNCHANGED <<args, grid, initial_condition, sol>>
    /\ UNCHANGED tl_vars

NextDiffusion == SolveDiffusionPde \/ IntegratorStep \/ IntegratorFail \/ ReturnResult

SpecDiffusion == InitDiffusion /\ [][NextDiffusion]_vars

\* the same program on a fine grid: 252 points, 4 apart.  The field is
\* carried exactly, which a grid of this size allows for
\* diffusion_coeff = 0 only; the labels and the shape of the tables do not
\* depend on the diffusion coefficient.
InitFineGrid ==
    InitArgs({0}, {1}, {[L |-> 1004, dx |-> 4]}, Horizons)

SpecFineGrid == InitFineGrid /\ [][NextDiffusion]_vars

\* -------------------------------------------------------------------------
\* Properties of time_lag_analysis
\* -------------------------------------------------------------------------
RECURSIVE RSumTo(_, _)
\* f[1] + ... + f[k] for rational f
RSumTo(f, k) == IF k = 0 THEN FromInt(0) ELSE RAdd(f[k], RSumTo(f, k - 1))

NonZero(a) == a.d > 0 /\ a.n # 0

NothingComputed == tl_steps = {} /\ df_ss = {} /\ slope = None /\ tl_return = <<>>

\* C4: a table without the cumulative-flux column, or without the time
\* column, makes the call raise the missing-column ValueError before the
\* steady-state subset is selected and before any regression is attempted;
\* with both absent the cumulative-flux error is the one raised; no tuple
\* is returned.
C4_MissingColumnRaisesFirst ==
    /\ (tl_pc # "start" /\ ColFlux \notin df.columns)
         => tl_pc = "raised" /\ tl_raised = "ValueError:flux" /\ NothingComputed
    /\ (tl_pc # "start" /\ ColFlux \in df.columns /\ ColT \notin df.columns)
         => tl_pc = "raised" /\ tl_raised = "ValueError:t" /\ NothingComputed

C4_Witness ==
    /\ tl_pc = "raised" /\ tl_raised = "ValueError:flux"
    /\ ColT \notin df.columns /\ ColP \in df.columns
    /\ Len(df.rows) = MaxRows

\* C5: a table missing any of the three required columns, in particular
\* one that has time and flux but no 'P_cell / bar', makes the call fail
\* at once, before the fit and before time_lag or diffusion_coefficient are
\* computed, with an error naming the missing column.
C5_AnyMissingColumnFailsFirst ==
    (tl_pc \in {"fitted", "done", "raised"} /\ df.columns # {ColT, ColFlux, ColP})
        => /\ tl_pc = "raised"
           /\ tl_raised \in {"ValueError:flux", "ValueError:t", "KeyError:P_cell"}
           /\ tl_steps = {} /\ slope = None /\ diffusion_coefficient = None

\* C8: a call that returns with nonzero slope, intercept and pressure
\* returns, in the order (time_lag, diffusion_coefficient, permeability,
\* solubility_coefficient, pressure, solubility, slope, intercept), values
\* with time_lag = -intercept/slope, diffusion_coefficient =
\* thickness^2/(6 time_lag), permeability = thickness slope/pressure,
\* solubility = slope thickness/diffusion_coefficient and
\* solubility_coefficient = permeability/diffusion_coefficient.
C8_DerivedCoefficients ==
    (tl_pc = "done" /\ NonZero(slope) /\ NonZero(intercept) /\ NonZero(pressure))
        => /\ Len(tl_return) = 8
           /\ tl_return = <<time_lag, diffusion_coefficient, permeability,
                            solubility_coefficient, pressure, solubility,
                            slope, intercept>>
           /\ \A k \in 1..8 : IsFinite(tl_return[k])
           /\ RMul(tl_return[1], tl_return[7]) = RNeg(tl_return[8])
           /\ RMul(tl_return[2], RMul(FromInt(6), tl_return[1]))
                = FromInt(thickness * thickness)
           /\ RMul(tl_return[3], tl_return[5]) = RMul(FromInt(thickness), tl_return[7])
           /\ RMul(tl_return[6], tl_return[2]) = RMul(tl_return[7], FromInt(thickness))
           /\ RMul(tl_return[4], tl_return[2]) = tl_return[3]

C8_Witness ==
    /\ tl_pc = "done" /\ NonZero(slope) /\ NonZero(intercept) /\ NonZero(pressure)
    /\ thickness = 2 /\ pressure # FromInt(1) /\ Cardinality(df_ss) = 3
    /\ time_lag.n > 0

\* C9: the steady-state subset is exactly the rows with t strictly greater
\* than the stabilisation time, wherever they stand in the table; the fit
\* is the least-squares line of exactly these rows (its residuals over
\* them satisfy both normal equations) and the pressure is the mean of
\* P_cell over exactly these rows.
C9_SteadyStateSubset ==
    tl_pc \in {"fitted", "done"} =>
        LET rows == df.rows
            In(i) == rows[i].t > stabilisation_time_s
            res  == [i \in 1..Len(rows) |->
                        IF In(i)
                        THEN RSub(FromInt(rows[i].flux),
                                  RAdd(RMul(slope, FromInt(rows[i].t)), intercept))
                        ELSE FromInt(0)]
            tres == [i \in 1..Len(rows) |-> RMul(FromInt(rows[i].t), res[i])]
            ps   == [i \in 1..Len(rows) |-> IF In(i) THEN FromInt(rows[i].P) ELSE FromInt(0)]
            cnt  == Cardinality({i \in 1..Len(rows) : In(i)})
        IN  /\ \A i \in 1..Len(rows) : (i \in df_ss) <=> In(i)
            /\ df_ss \subseteq 1..Len(rows)
            /\ RSumTo(res, Len(rows)) = FromInt(0)
            /\ RSumTo(tres, Len(rows)) = FromInt(0)
            /\ tl_pc = "done" => RMul(pressure, FromInt(cnt)) = RSumTo(ps, Len(rows))

\* a table whose rows are out of time order, with one row exactly at the
\* stabilisation time and two later rows around it
C9_Witness ==
    /\ tl_pc = "done" /\ Len(df.rows) = 3
    /\ df.rows[2].t = stabilisation_time_s
    /\ df.rows[1].t > df.rows[3].t /\ df.rows[3].t > stabilisation_time_s
    /\ df.rows[2].P # df.rows[1].P
    /\ df_ss = {1, 3}


\* -------------------------------------------------------------------------
\* Properties of solve_constant_diffusivity_model
\* -------------------------------------------------------------------------
FewPercent == 5          \* "within a few percent"
HorizonFactor == 5       \* "T large relative to L^2/D": D T >= HorizonFactor L^2

Returned == sim_pc = "done"

C2_FailedIntegrationAborts ==
    (sol.status = -1 /\ sim_pc \in {"done", "raised"})
        => sim_pc = "raised" /\ sim_return = <<>>

\* C3: the flux at each output time is -D (C[k, Nx-1] - C[k, Nx-2]) / dx with
\* dx the spacing of the last two points of the grid used, L/(Nx-1), for
\* every requested dx.
C3_FluxOverGridSpacing ==
    Returned =>
        LET C  == sim_return.C_surface
            sp == RSub(grid.x_grid[grid.Nx - 1], grid.x_grid[grid.Nx - 2])
        IN  /\ sp = Rat(args.L, grid.Nx - 1)
            /\ sp = grid.dx
            /\ \A k \in 1..Len(C) :
                 RMul(sim_return.flux_values[k], sp)
                   = RMul(FromInt(-args.diffusion_coeff),
                          RSub(C[k][grid.Nx - 1], C[k][grid.Nx - 2]))

\* C6: a call whose integration succeeded returns a field and a table of
\* round(T/dt)+1 rows and round(L/dx)+1 spatial columns, and a flux series
\* and flux table of round(T/dt)+1 entries at the evenly spaced times from
\* 0 to T.
C6_GridShape ==
    (Returned /\ sol.status = 0) =>
        LET nx  == Round(args.L, args.dx) + 1
            nt  == Round(args.T, args.dt) + 1
            C   == sim_return.C_surface
            tab == sim_return.df_C_surface
            ft  == sim_return.df_flux_values
        IN  /\ Len(C) = nt
            /\ \A k \in 1..nt : DOMAIN C[k] = 0..(nx - 1)
            /\ Len(tab.columns) = nx + 1 /\ Len(tab.data) = nx + 1
            /\ \A j \in 1..Len(tab.data) : Len(tab.data[j]) = nt
            /\ Len(sim_return.flux_values) = nt
            /\ Len(ft.data[1]) = nt /\ Len(ft.data[2]) = nt
            /\ \A k \in 1..nt : ft.data[1][k] = Rat((k - 1) * args.T, nt - 1)

\* C7: with T large relative to L^2/D and the profile at its steady state,
\* the flux at the final output time is within a few percent of D C_eq / L,
\* for every requested dx with round(L/dx) >= 1.
LongHorizon == args.diffusion_coeff * args.T >= HorizonFactor * args.L * args.L

C7_SteadyStateFlux ==
    (Returned /\ sol.status = 0 /\ LongHorizon /\ Round(args.L, args.dx) >= 1) =>
        LET ref  == Rat(args.diffusion_coeff * args.C_eq, args.L)
            last == sim_return.flux_values[Len(sim_return.flux_values)]
        IN  RLeq(RMul(FromInt(100), RAbs(RSub(last, ref))),
                 RMul(FromInt(FewPercent), ref))

\* C10: the concentration table has the Time column first, then one column
\* per grid point in grid order; distinct grid points have distinct labels,
\* so no label occurs twice and the table has Nx + 1 columns.
C10_OneColumnPerGridPoint ==
    Returned =>
        LET cols == sim_return.df_C_surface.columns
        IN  /\ Len(cols) = grid.Nx + 1
            /\ cols[1] = TimeLabel
            /\ \A j \in 2..Len(cols) : cols[j].name = "x"
            /\ \A i, j \in 1..Len(cols) : i # j => cols[i] # cols[j]
            /\ \A i, j \in 0..(grid.Nx - 1) :
                 i # j => FormatLabel(grid.x_grid[i]) # FormatLabel(grid.x_grid[j])

====
